---- MODULE Spec2Model ----
(***************************************************************************)
(* Model of the SQLite-backed result cache of accountability/caching.py:   *)
(* the decorator cache_result (its wrapper), the connection context        *)
(* manager RetryableDatabase and the JSON hooks _serialize_for_cache and   *)
(* _deserialize_from_cache.                                                *)
(*                                                                         *)
(* Each process is one OS process that calls the wrapper; all processes    *)
(* share the file cache.db.  One action is one statement (or one attempt   *)
(* of a retry loop) of the wrapper, together with the exception handling   *)
(* that the statement's failure triggers.                                  *)
(***************************************************************************)
EXTENDS Integers, Sequences, FiniteSets, TLC

VARIABLES
    now,          \* the wall clock read by time.time()
    db,           \* cache.db: per table name, whether it exists and its rows
    lock,         \* the set of processes holding SQLite's write lock on cache.db
    pc,           \* per process: the statement of wrapper() it is at
    left,         \* per process: wrapper calls it may still start
    args,         \* per process: the argument of the current call
    attempt,      \* per process: loop variable of the retry loop it is in
    conn,         \* per process: TRUE while its sqlite3 connection is open
    result,       \* per process: the row fetched by cursor.fetchone(), or NoRow
    current_time, \* per process: the local current_time of wrapper()
    new_value,    \* per process: the local new_value of wrapper()
    ncalls,       \* per process: invocations of func made by the current call
    why,          \* per process: the exception being handled, as a path label
    out,          \* per process: how its latest finished call ended
    lastUpsert,   \* per key: the value and timestamp of the latest committed upsert
    waits,        \* per process: the time.sleep() calls of the retry loop it is in
    leaked        \* per process: connections opened by __enter__ and not closed

\* the state of the wrapper and of the store
cacheVars == <<now, db, lock, pc, left, args, attempt, conn, result,
               current_time, new_value, ncalls, why, out, lastUpsert, waits,
               leaked>>

VARIABLES
    sample,            \* the value handed to json.dumps
    serialized_value,  \* the text json.dumps returned for it
    decoded,           \* what json.loads returned for that text
    hpc                \* how far the round trip of sample has got

\* the state of a round trip through the two JSON hooks
hookVars == <<sample, serialized_value, decoded, hpc>>

VARIABLES
    deco,         \* per decorated function: its __name__ and its table_name
    served        \* the latest call of a decorated function and what it got

\* the state of the calls of several decorated functions
nsVars == <<deco, served>>

VARIABLES
    historical,            \* the equity samples the calculator works on
    transfers,             \* the bank transfers the calculator works on
    percentages,           \* the points the calculator has emitted
    total_deposits,        \* the local total_deposits
    current_transfer_idx,  \* the local current_transfer_idx
    start_equity,          \* the local start_equity
    start_date,            \* the local start_date
    day_idx,               \* the position of the for loop in historical
    cpc                    \* the statement the calculator is at

\* the state of the percentage calculator
calcVars == <<historical, transfers, percentages, total_deposits,
              current_transfer_idx, start_equity, start_date, day_idx, cpc>>

VARIABLES
    source,       \* what the data source holds: equity samples and transfers
    cached,       \* the row of each of the two cached fetches of rh_api
    answers       \* the requests served so far, with what they returned

\* the state of the requests that go through the two cached fetches
reqVars == <<source, cached, answers>>

\* what the actions of the wrapper leave alone
asideVars == <<leaked, hookVars, nsVars, calcVars, reqVars>>

vars == <<cacheVars, hookVars, nsVars, calcVars, reqVars>>

(***************************************************************************)
(* Bounds of the model.                                                    *)
(***************************************************************************)
MaxTime == 2        \* the clock runs over 0..MaxTime
Ttl == 2            \* ttl_seconds of the decoration
SeqCalls == 3       \* calls made by the single caller of SpecSeq
MaxDate == 1        \* the datetimes of SpecHook are the instants 0..MaxDate
MaxLen == 3         \* the longest equity series handed to the calculator

MAX_RETRIES == 5    \* RetryableDatabase.MAX_RETRIES
RETRY_DELAY == 100  \* RetryableDatabase.RETRY_DELAY, in milliseconds

\* mutant: a backoff that grows by RETRY_DELAY per attempt
BackoffLinear(k) == RETRY_DELAY * (k + 1)

\* the argument of time.sleep: RETRY_DELAY * (2**attempt)
Backoff(k) == RETRY_DELAY * (2 ^ k)

Procs == {1, 2}
Args == {1, 2}
FuncName == "test_function"
TableName == "test_cache"
TableNames == {TableName, "test_datetime_cache"}

(***************************************************************************)
(* Python values and JSON texts.  A value is a record with a type tag; a   *)
(* string is a record too, so that the text produced by isoformat() and    *)
(* the text produced by str(int) stay apart from literal strings.          *)
(***************************************************************************)
NoStr == [kind |-> "none", lit |-> "", num |-> 0]
Lit(s) == [kind |-> "lit", lit |-> s, num |-> 0]
Iso(d) == [kind |-> "iso", lit |-> "", num |-> d]
Dec(n) == [kind |-> "dec", lit |-> "", num |-> n]

PyInt(n) == [t |-> "int", n |-> n, s |-> NoStr, items |-> <<>>]
PyStr(s) == [t |-> "str", n |-> 0, s |-> s, items |-> <<>>]
PyDatetime(d) == [t |-> "datetime", n |-> d, s |-> NoStr, items |-> <<>>]
PyList(xs) == [t |-> "list", n |-> 0, s |-> NoStr, items |-> xs]
PyTuple(xs) == [t |-> "tuple", n |-> 0, s |-> NoStr, items |-> xs]
PySet(xs) == [t |-> "set", n |-> 0, s |-> NoStr, items |-> xs]
\* a dict is the sequence of its items, each a pair <<key, value>>
PyItem(k, v) == [t |-> "item", n |-> 0, s |-> NoStr, items |-> <<k, v>>]
PyDict(kvs) == [t |-> "dict", n |-> 0, s |-> NoStr, items |-> kvs]

JNum(n) == [t |-> "jnum", n |-> n, s |-> NoStr, items |-> <<>>]
JStr(s) == [t |-> "jstr", n |-> 0, s |-> s, items |-> <<>>]
JArr(xs) == [t |-> "jarr", n |-> 0, s |-> NoStr, items |-> xs]
JMember(k, v) == [t |-> "jmember", n |-> 0, s |-> k, items |-> <<v>>]
JObj(ms) == [t |-> "jobj", n |-> 0, s |-> NoStr, items |-> ms]

\* the outcome of a conversion that raised
Raised == [t |-> "raised", n |-> 0, s |-> NoStr, items |-> <<>>]

RECURSIVE AnyRaised(_)
AnyRaised(xs) ==
    IF xs = <<>> THEN FALSE
    ELSE Head(xs) = Raised \/ AnyRaised(Tail(xs))

\* mutant: the encoder writes a tag the decoder does not look for
_serialize_other_tag(obj) ==
    IF obj.t = "datetime"
    THEN PyDict(<<PyItem(PyStr(Lit("__date__")), PyStr(Iso(obj.n)))>>)
    ELSE obj

\* _serialize_for_cache: the default= hook of json.dumps
_serialize_for_cache(obj) ==
    IF obj.t = "datetime"
    THEN PyDict(<<PyItem(PyStr(Lit("__datetime__")), PyStr(Iso(obj.n)))>>)
    ELSE obj

\* the text json.dumps gives a dict key: str keys as they are, int keys as
\* their decimal text, any other key raises TypeError
DumpsKey(k) ==
    IF k.t = "str" THEN k.s
    ELSE IF k.t = "int" THEN Dec(k.n)
    ELSE NoStr

\* (a sequence built by a function constructor is joined with the empty
\* sequence so that it is held as a tuple of its elements)
RECURSIVE Dumps(_)
DumpsSeq(xs) == [i \in 1..Len(xs) |-> Dumps(xs[i])] \o <<>>
DumpsItem(kv) ==
    LET k == DumpsKey(kv.items[1])
        v == Dumps(kv.items[2])
    IN IF k = NoStr \/ v = Raised THEN Raised ELSE JMember(k, v)
\* json.dumps(new_value, default=_serialize_for_cache)
Dumps(obj) ==
    IF obj.t = "int" THEN JNum(obj.n)
    ELSE IF obj.t = "str" THEN JStr(obj.s)
    ELSE IF obj.t \in {"list", "tuple"} THEN
        LET xs == DumpsSeq(obj.items)
        IN IF AnyRaised(xs) THEN Raised ELSE JArr(xs)
    ELSE IF obj.t = "dict" THEN
        LET ms == [i \in 1..Len(obj.items) |-> DumpsItem(obj.items[i])] \o <<>>
        IN IF AnyRaised(ms) THEN Raised ELSE JObj(ms)
    ELSE IF _serialize_for_cache(obj) = obj
        THEN Raised     \* the hook hands the object back: circular reference
        ELSE Dumps(_serialize_for_cache(obj))

\* obj["__datetime__"] of a decoded JSON object (its last such member)
RECURSIVE Member(_, _)
Member(kvs, key) ==
    IF kvs = <<>> THEN Raised
    ELSE LET kv == kvs[Len(kvs)]
         IN IF kv.items[1] = PyStr(key) THEN kv.items[2]
            ELSE Member(SubSeq(kvs, 1, Len(kvs) - 1), key)

\* datetime.fromisoformat
FromIsoFormat(v) ==
    IF v.t = "str" /\ v.s.kind = "iso" THEN PyDatetime(v.s.num) ELSE Raised

\* _deserialize_from_cache: the object_hook= of json.loads
_deserialize_from_cache(obj) ==
    IF obj.t = "dict" /\ Member(obj.items, Lit("__datetime__")) # Raised
    THEN FromIsoFormat(Member(obj.items, Lit("__datetime__")))
    ELSE obj

RECURSIVE Loads(_)
LoadsMember(m) ==
    LET v == Loads(m.items[1])
    IN IF v = Raised THEN Raised ELSE PyItem(PyStr(m.s), v)
\* json.loads(result[0], object_hook=_deserialize_from_cache)
Loads(j) ==
    IF j.t = "jnum" THEN PyInt(j.n)
    ELSE IF j.t = "jstr" THEN PyStr(j.s)
    ELSE IF j.t = "jarr" THEN
        LET xs == [i \in 1..Len(j.items) |-> Loads(j.items[i])] \o <<>>
        IN IF AnyRaised(xs) THEN Raised ELSE PyList(xs)
    ELSE IF j.t = "jobj" THEN
        LET kvs == [i \in 1..Len(j.items) |-> LoadsMember(j.items[i])] \o <<>>
        IN IF AnyRaised(kvs) THEN Raised
           ELSE _deserialize_from_cache(PyDict(kvs))
    ELSE Raised

\* what the wrapped function may return
Results ==
    { PyDict(<<PyItem(PyStr(Lit("date")), PyDatetime(1))>>),
      PyTuple(<<PyInt(1)>>),
      PySet(<<PyInt(1)>>) }


(***************************************************************************)
(* The store.                                                              *)
(***************************************************************************)
\* cache_key = f"{func.__name__}:{str(args)}:{str(kwargs)}"
CacheKey(name, a) == <<name, a>>
Keys == {CacheKey(FuncName, a) : a \in Args}

NoRow == [key |-> CacheKey("", 0), value |-> Raised, timestamp |-> -1]

\* the rows of a table whose PRIMARY KEY column is key
RowsOf(rows, key) == {r \in rows : r.key = key}

\* cursor.fetchone() of SELECT value, timestamp ... WHERE key = ?
FetchOne(rows, key) ==
    IF RowsOf(rows, key) = {} THEN NoRow ELSE CHOOSE r \in RowsOf(rows, key) : TRUE

\* mutant: INSERT without OR REPLACE and without the PRIMARY KEY
InsertPlain(rows, key, value, ts) ==
    rows \cup {[key |-> key, value |-> value, timestamp |-> ts]}

\* mutant: INSERT OR IGNORE, which keeps the row the key already has
InsertOrIgnore(rows, key, value, ts) ==
    IF RowsOf(rows, key) # {} THEN rows
    ELSE rows \cup {[key |-> key, value |-> value, timestamp |-> ts]}

\* mutant: the write also sweeps the rows that are expired at ts
InsertSweep(rows, key, value, ts) ==
    {r \in rows : r.key # key /\ ts - r.timestamp < Ttl}
        \cup {[key |-> key, value |-> value, timestamp |-> ts]}

\* INSERT OR REPLACE INTO table (key, value, timestamp) VALUES (?, ?, ?)
InsertOrReplace(rows, key, value, ts) ==
    (rows \ RowsOf(rows, key))
        \cup {[key |-> key, value |-> value, timestamp |-> ts]}

\* mutant: a row whose age equals ttl_seconds is still served
IsFreshLe(row, t) == row # NoRow /\ (t - row.timestamp) <= Ttl

\* result and (current_time - result[1]) < ttl_seconds
IsFresh(row, t) == row # NoRow /\ (t - row.timestamp) < Ttl

\* no upsert was committed for the key
NoUpsert == [val |-> Raised, ts |-> -1]

\* the outcome of a finished call
NoOut == [how |-> "none", raised |-> FALSE, val |-> Raised, n |-> 0,
          key |-> CacheKey("", 0)]

(***************************************************************************)
(* Initial states: an empty cache.db, no call in progress.                 *)
(***************************************************************************)
InitStore ==
    /\ now = 0
    /\ db = [t \in TableNames |-> [exists |-> FALSE, rows |-> {}]]
    /\ lock = {}
    /\ pc = [p \in Procs |-> "idle"]
    /\ args = [p \in Procs |-> 0]
    /\ attempt = [p \in Procs |-> 0]
    /\ conn = [p \in Procs |-> FALSE]
    /\ result = [p \in Procs |-> NoRow]
    /\ current_time = [p \in Procs |-> -1]
    /\ new_value = [p \in Procs |-> Raised]
    /\ ncalls = [p \in Procs |-> 0]
    /\ why = [p \in Procs |-> "none"]
    /\ out = [p \in Procs |-> NoOut]
    /\ lastUpsert = [k \in Keys |-> NoUpsert]
    /\ waits = [p \in Procs |-> <<>>]
    /\ leaked = [p \in Procs |-> 0]

\* no round trip through the hooks is being followed
HookOff ==
    /\ sample = Raised
    /\ serialized_value = Raised
    /\ decoded = Raised
    /\ hpc = "off"

\* no call of a decorated function was made
NoServed == [fn |-> 0, table |-> "", key |-> CacheKey("", 0), how |-> "none",
             val |-> Raised, by |-> 0]

\* no second decorated function is being followed
NsOff ==
    /\ deco = <<>>
    /\ served = NoServed

\* no request is being followed
ReqOff ==
    /\ source = [equity |-> <<>>, bank |-> <<>>]
    /\ cached = [portfolio |-> NoRow, bank |-> NoRow]
    /\ answers = <<>>

\* the calculator is not running
CalcOff ==
    /\ historical = <<>>
    /\ transfers = <<>>
    /\ percentages = <<>>
    /\ total_deposits = 0
    /\ current_transfer_idx = 0
    /\ start_equity = 0
    /\ start_date = 0
    /\ day_idx = 0
    /\ cpc = "off"

\* two concurrent callers: each process calls the wrapper once
Init ==
    /\ InitStore
    /\ left = [p \in Procs |-> 1]
    /\ HookOff /\ NsOff /\ CalcOff /\ ReqOff

\* one process calling the wrapper SeqCalls times
InitSeq ==
    /\ InitStore
    /\ left = [p \in Procs |-> IF p = 1 THEN SeqCalls ELSE 0]
    /\ HookOff /\ NsOff /\ CalcOff /\ ReqOff

(***************************************************************************)
(* The end of a call: the frame of wrapper() is gone, the outcome is kept. *)
(***************************************************************************)
Finish(p, how, raised, val, n) ==
    /\ out' = [out EXCEPT ![p] =
                 [how |-> how, raised |-> raised, val |-> val, n |-> n,
                  key |-> CacheKey(FuncName, args[p])]]
    /\ pc' = [pc EXCEPT ![p] = "idle"]
    /\ args' = [args EXCEPT ![p] = 0]
    /\ attempt' = [attempt EXCEPT ![p] = 0]
    /\ result' = [result EXCEPT ![p] = NoRow]
    /\ current_time' = [current_time EXCEPT ![p] = -1]
    /\ new_value' = [new_value EXCEPT ![p] = Raised]
    /\ ncalls' = [ncalls EXCEPT ![p] = 0]
    /\ why' = [why EXCEPT ![p] = "none"]
    /\ waits' = [waits EXCEPT ![p] = <<>>]

\* RetryableDatabase.__exit__: close the connection; closing rolls back an
\* open transaction and gives up the write lock
Exit(p) ==
    /\ conn' = [conn EXCEPT ![p] = FALSE]
    /\ lock' = lock \ {p}

\* an exception that is a sqlite3.Error leaves the with block and reaches
\* the except clause of the wrapper, which reads none of the locals set in
\* the try block (the model forgets them)
Caught(p, label) ==
    /\ why' = [why EXCEPT ![p] = label]
    /\ pc' = [pc EXCEPT ![p] = "fallback"]
    /\ attempt' = [attempt EXCEPT ![p] = 0]
    /\ result' = [result EXCEPT ![p] = NoRow]
    /\ current_time' = [current_time EXCEPT ![p] = -1]
    /\ new_value' = [new_value EXCEPT ![p] = Raised]

(***************************************************************************)
(* wrapper(...)                                                *)
(***************************************************************************)
Call(p, a) ==
    /\ pc[p] = "idle"
    /\ left[p] > 0
    /\ left' = [left EXCEPT ![p] = @ - 1]
    /\ args' = [args EXCEPT ![p] = a]
    /\ pc' = [pc EXCEPT ![p] = "enter"]
    /\ UNCHANGED <<now, db, lock, attempt, conn, result, current_time,
                   new_value, ncalls, why, out, lastUpsert, waits>>
    /\ UNCHANGED asideVars

\* RetryableDatabase.__enter__, an attempt that connects
EnterOk(p) ==
    /\ pc[p] = "enter"
    /\ conn' = [conn EXCEPT ![p] = TRUE]
    /\ attempt' = [attempt EXCEPT ![p] = 0]
    /\ waits' = [waits EXCEPT ![p] = <<>>]
    /\ pc' = [pc EXCEPT ![p] = "create"]
    /\ UNCHANGED <<now, db, lock, left, args, result, current_time,
                   new_value, ncalls, why, out, lastUpsert>>
    /\ UNCHANGED asideVars

\* RetryableDatabase.__enter__, an attempt that raises OperationalError:
\* the last attempt re-raises, out of the with statement (no __exit__) and
\* into the except clause of the wrapper; the others sleep and go on
EnterFail(p) ==
    /\ pc[p] = "enter"
    /\ IF attempt[p] = MAX_RETRIES - 1
       THEN /\ Caught(p, "connect_exhausted")
            /\ UNCHANGED waits
       ELSE /\ waits' = [waits EXCEPT ![p] = Append(@, Backoff(attempt[p]))]
            /\ attempt' = [attempt EXCEPT ![p] = @ + 1]
            /\ UNCHANGED <<pc, why, result, current_time, new_value>>
    /\ UNCHANGED <<now, db, lock, left, args, conn, ncalls, out, lastUpsert>>
    /\ UNCHANGED asideVars

\* CREATE TABLE IF NOT EXISTS: creating the table is a write, which needs
\* the write lock to be free
CreateOk(p) ==
    /\ pc[p] = "create"
    /\ db[TableName].exists \/ lock = {}
    /\ db' = [db EXCEPT ![TableName].exists = TRUE]
    /\ pc' = [pc EXCEPT ![p] = "select"]
    /\ UNCHANGED <<now, lock, left, args, attempt, conn, result, current_time,
                   new_value, ncalls, why, out, lastUpsert, waits>>
    /\ UNCHANGED asideVars

\* CREATE TABLE raises a sqlite3.Error
CreateFail(p) ==
    /\ pc[p] = "create"
    /\ Exit(p)
    /\ Caught(p, "create_error")
    /\ UNCHANGED <<now, db, left, args, ncalls, out, lastUpsert, waits>>
    /\ UNCHANGED asideVars

\* SELECT ... WHERE key = ? and fetchone()
SelectOk(p) ==
    /\ pc[p] = "select"
    /\ result' = [result EXCEPT ![p] =
                    FetchOne(db[TableName].rows, CacheKey(FuncName, args[p]))]
    /\ pc' = [pc EXCEPT ![p] = "check"]
    /\ UNCHANGED <<now, db, lock, left, args, attempt, conn, current_time,
                   new_value, ncalls, why, out, lastUpsert, waits>>
    /\ UNCHANGED asideVars

\* SELECT raises a sqlite3.Error
SelectFail(p) ==
    /\ pc[p] = "select"
    /\ Exit(p)
    /\ Caught(p, "select_error")
    /\ UNCHANGED <<now, db, left, args, ncalls, out, lastUpsert, waits>>
    /\ UNCHANGED asideVars

\* mutant: a hit refreshes the timestamp of the row it read
HitRefresh(p) ==
    /\ pc[p] = "check"
    /\ IsFresh(result[p], now)
    /\ Exit(p)
    /\ db' = [db EXCEPT ![TableName].rows =
                InsertOrReplace(@, result[p].key, result[p].value, now)]
    /\ Finish(p, "hit", FALSE, Loads(result[p].value), ncalls[p])
    /\ UNCHANGED <<now, left, lastUpsert>>
    /\ UNCHANGED asideVars

\* current_time = time.time(); the row is fresh:
\* return json.loads(result[0], object_hook=...); a decoding error is no
\* sqlite3.Error and reaches the caller
Hit(p) ==
    /\ pc[p] = "check"
    /\ IsFresh(result[p], now)
    /\ Exit(p)
    /\ LET v == Loads(result[p].value)
       IN IF v = Raised
          THEN Finish(p, "loads_error", TRUE, Raised, ncalls[p])
          ELSE Finish(p, "hit", FALSE, v, ncalls[p])
    /\ UNCHANGED <<now, db, left, lastUpsert>>
    /\ UNCHANGED asideVars

\* current_time = time.time(); no row, or a row that is not fresh: go on to
\* compute (the wrapper does not read result again, the model forgets it)
Miss(p) ==
    /\ pc[p] = "check"
    /\ ~IsFresh(result[p], now)
    /\ current_time' = [current_time EXCEPT ![p] = now]
    /\ pc' = [pc EXCEPT ![p] = "compute"]
    /\ result' = [result EXCEPT ![p] = NoRow]
    /\ UNCHANGED <<now, db, lock, left, args, attempt, conn,
                   new_value, ncalls, why, out, lastUpsert, waits>>
    /\ UNCHANGED asideVars

\* new_value = func(...)
Compute(p, v) ==
    /\ pc[p] = "compute"
    /\ new_value' = [new_value EXCEPT ![p] = v]
    /\ ncalls' = [ncalls EXCEPT ![p] = @ + 1]
    /\ attempt' = [attempt EXCEPT ![p] = 0]
    /\ waits' = [waits EXCEPT ![p] = <<>>]
    /\ pc' = [pc EXCEPT ![p] = "insert"]
    /\ UNCHANGED <<now, db, lock, left, args, conn, result, current_time,
                   why, out, lastUpsert>>
    /\ UNCHANGED asideVars

\* mutant: the except clause of the wrapper catches what json.dumps raises
DumpsFailCaught(p) ==
    /\ pc[p] = "insert"
    /\ Dumps(new_value[p]) = Raised
    /\ Exit(p)
    /\ Caught(p, "dumps_error")
    /\ UNCHANGED <<now, db, left, args, ncalls, out, lastUpsert, waits>>
    /\ UNCHANGED asideVars

\* json.dumps raises (ValueError or TypeError): not caught by either except
\* clause, the connection is closed and the caller gets the exception
DumpsFail(p) ==
    /\ pc[p] = "insert"
    /\ Dumps(new_value[p]) = Raised
    /\ Exit(p)
    /\ Finish(p, "dumps_error", TRUE, Raised, ncalls[p])
    /\ UNCHANGED <<now, db, left, lastUpsert>>
    /\ UNCHANGED asideVars

\* the except sqlite3.OperationalError clause of the store loop: the last
\* attempt re-raises, which closes the connection and reaches the except
\* clause of the wrapper; the others sleep and try again
RetryOrRaise(p) ==
    IF attempt[p] = MAX_RETRIES - 1
    THEN /\ Exit(p)
         /\ Caught(p, "upsert_exhausted")
         /\ UNCHANGED waits
    ELSE /\ waits' = [waits EXCEPT ![p] = Append(@, Backoff(attempt[p]))]
         /\ attempt' = [attempt EXCEPT ![p] = @ + 1]
         /\ pc' = [pc EXCEPT ![p] = "insert"]
         /\ UNCHANGED <<conn, lock, why, result, current_time, new_value>>

\* mutant: a write lock per key, which only a writer of the same key waits for
InsertOkKeyLock(p) ==
    /\ pc[p] = "insert"
    /\ Dumps(new_value[p]) # Raised
    /\ \A q \in lock \ {p} : args[q] # args[p]
    /\ lock' = lock \cup {p}
    /\ pc' = [pc EXCEPT ![p] = "commit"]
    /\ UNCHANGED <<now, db, left, args, attempt, conn, result, current_time,
                   new_value, ncalls, why, out, lastUpsert, waits>>
    /\ UNCHANGED asideVars

\* INSERT OR REPLACE executes: the connection opens a transaction and takes
\* the write lock, which no other connection may hold
InsertOk(p) ==
    /\ pc[p] = "insert"
    /\ Dumps(new_value[p]) # Raised
    /\ lock \subseteq {p}
    /\ lock' = {p}
    /\ pc' = [pc EXCEPT ![p] = "commit"]
    /\ UNCHANGED <<now, db, left, args, attempt, conn, result, current_time,
                   new_value, ncalls, why, out, lastUpsert, waits>>
    /\ UNCHANGED asideVars

\* INSERT OR REPLACE raises OperationalError (database is locked)
InsertFail(p) ==
    /\ pc[p] = "insert"
    /\ Dumps(new_value[p]) # Raised
    /\ RetryOrRaise(p)
    /\ UNCHANGED <<now, db, left, args, ncalls, out, lastUpsert>>
    /\ UNCHANGED asideVars

\* INSERT OR REPLACE raises a sqlite3.Error that is no OperationalError:
\* not retried, caught by the except clause of the wrapper
InsertError(p) ==
    /\ pc[p] = "insert"
    /\ Dumps(new_value[p]) # Raised
    /\ Exit(p)
    /\ Caught(p, "insert_error")
    /\ waits' = [waits EXCEPT ![p] = <<>>]
    /\ UNCHANGED <<now, db, left, args, ncalls, out, lastUpsert>>
    /\ UNCHANGED asideVars

\* conn.commit() succeeds: the row is in the table, the lock is free;
\* break, return new_value
CommitOk(p) ==
    /\ pc[p] = "commit"
    /\ db' = [db EXCEPT ![TableName].rows =
                InsertOrReplace(@, CacheKey(FuncName, args[p]),
                                Dumps(new_value[p]), current_time[p])]
    /\ lastUpsert' = [lastUpsert EXCEPT ![CacheKey(FuncName, args[p])] =
                        [val |-> new_value[p], ts |-> current_time[p]]]
    /\ conn' = [conn EXCEPT ![p] = FALSE]
    /\ lock' = {}
    /\ Finish(p, "stored", FALSE, new_value[p], ncalls[p])
    /\ UNCHANGED <<now, left>>
    /\ UNCHANGED asideVars

\* conn.commit() raises OperationalError; the transaction stays open
CommitFail(p) ==
    /\ pc[p] = "commit"
    /\ RetryOrRaise(p)
    /\ UNCHANGED <<now, db, left, args, ncalls, out, lastUpsert>>
    /\ UNCHANGED asideVars

\* mutant: the except clause logs and re-raises
FallbackRaise(p, v) ==
    /\ pc[p] = "fallback"
    /\ Finish(p, why[p], TRUE, Raised, ncalls[p])
    /\ UNCHANGED <<now, db, lock, left, conn, lastUpsert>>
    /\ UNCHANGED asideVars

\* except sqlite3.Error: return func(...)
Fallback(p, v) ==
    /\ pc[p] = "fallback"
    /\ Finish(p, why[p], FALSE, v, ncalls[p] + 1)
    /\ UNCHANGED <<now, db, lock, left, conn, lastUpsert>>
    /\ UNCHANGED asideVars

\* time passes
Tick ==
    /\ now < MaxTime
    /\ now' = now + 1
    /\ UNCHANGED <<db, lock, pc, left, args, attempt, conn, result,
                   current_time, new_value, ncalls, why, out, lastUpsert, waits>>
    /\ UNCHANGED asideVars

Step(p) ==
    \/ \E a \in Args : Call(p, a)
    \/ EnterOk(p)
    \/ EnterFail(p)
    \/ CreateOk(p)
    \/ CreateFail(p)
    \/ SelectOk(p)
    \/ SelectFail(p)
    \/ Hit(p)
    \/ Miss(p)
    \/ \E v \in Results : Compute(p, v)
    \/ DumpsFail(p)
    \/ InsertOk(p)
    \/ InsertFail(p)
    \/ InsertError(p)
    \/ CommitOk(p)
    \/ CommitFail(p)
    \/ \E v \in Results : Fallback(p, v)

Next == Tick \/ \E p \in Procs : Step(p)

Spec == Init /\ [][Next]_vars
SpecSeq == InitSeq /\ [][Next]_vars

(***************************************************************************)
(* The connections of __enter__.  The try block of an attempt holds two    *)
(* statements: sqlite3.connect, which opens the connection and binds it to *)
(* self.conn, and conn.execute of the PRAGMA.  EnterFail is the attempt in *)
(* which either raises; which of the two raised matters only to the        *)
(* connections left open, which SpecConn follows: PragmaFail is the        *)
(* attempt whose connect succeeded.  No statement closes that connection:  *)
(* the next attempt rebinds self.conn, and a raising __enter__ is not      *)
(* followed by __exit__.  The interpreter closes a connection object when  *)
(* it finalizes it, at a time the language does not fix (Collect).         *)
(***************************************************************************)
PragmaFail(p) ==
    /\ pc[p] = "enter"
    /\ leaked' = [leaked EXCEPT ![p] = @ + 1]
    /\ IF attempt[p] = MAX_RETRIES - 1
       THEN /\ Caught(p, "connect_exhausted")
            /\ UNCHANGED waits
       ELSE /\ waits' = [waits EXCEPT ![p] = Append(@, Backoff(attempt[p]))]
            /\ attempt' = [attempt EXCEPT ![p] = @ + 1]
            /\ UNCHANGED <<pc, why, result, current_time, new_value>>
    /\ UNCHANGED <<now, db, lock, left, args, conn, ncalls, out, lastUpsert>>
    /\ UNCHANGED <<hookVars, nsVars, calcVars, reqVars>>

\* the interpreter finalizes the connection objects nothing refers to
Collect(p) ==
    /\ leaked[p] > 0
    /\ leaked' = [leaked EXCEPT ![p] = 0]
    /\ UNCHANGED <<now, db, lock, pc, left, args, attempt, conn, result,
                   current_time, new_value, ncalls, why, out, lastUpsert, waits>>
    /\ UNCHANGED <<hookVars, nsVars, calcVars, reqVars>>

\* one process calling the wrapper twice
InitConn ==
    /\ InitStore
    /\ left = [p \in Procs |-> IF p = 1 THEN 2 ELSE 0]
    /\ HookOff /\ NsOff /\ CalcOff /\ ReqOff

NextConn ==
    \/ Next
    \/ \E p \in Procs : PragmaFail(p)
    \/ \E p \in Procs : Collect(p)

SpecConn == InitConn /\ [][NextConn]_vars


(***************************************************************************)
(* The round trip of one result through the hooks: what a miss writes for  *)
(* it (json.dumps with default=_serialize_for_cache) and what a later hit  *)
(* returns for that text (json.loads with object_hook=                     *)
(* _deserialize_from_cache).  The results are datetimes, ints and strs,    *)
(* alone or inside lists, tuples, sets and dicts with a str or an int key, *)
(* nested twice; no dict has the key "__datetime__" of its own.            *)
(***************************************************************************)
Dates == 0..MaxDate
Leaves == {PyDatetime(d) : d \in Dates} \cup {PyInt(1), PyStr(Lit("x"))}
Wrap(x) ==
    { PyList(<<x>>), PyTuple(<<x>>), PySet(<<x>>),
      PyDict(<<PyItem(PyStr(Lit("date")), x)>>),
      PyDict(<<PyItem(PyInt(1), x)>>) }
Nested1 ==
    UNION {Wrap(x) : x \in Leaves} \cup {PyList(<<x, y>>) : x, y \in Leaves}
Nested2 == UNION {Wrap(x) : x \in Nested1}
Samples == Leaves \cup Nested1 \cup Nested2

InitHook ==
    /\ InitStore
    /\ left = [p \in Procs |-> 0]
    /\ sample \in Samples
    /\ serialized_value = Raised
    /\ decoded = Raised
    /\ hpc = "new"
    /\ NsOff /\ CalcOff /\ ReqOff

\* serialized_value = json.dumps(new_value, default=_serialize_for_cache)
HookDumps ==
    /\ hpc = "new"
    /\ serialized_value' = Dumps(sample)
    /\ hpc' = IF Dumps(sample) = Raised THEN "dumps_raised" ELSE "dumped"
    /\ UNCHANGED <<sample, decoded, cacheVars, nsVars, calcVars, reqVars>>

\* json.loads(result[0], object_hook=_deserialize_from_cache)
HookLoads ==
    /\ hpc = "dumped"
    /\ decoded' = Loads(serialized_value)
    /\ hpc' = IF Loads(serialized_value) = Raised THEN "loads_raised" ELSE "loaded"
    /\ UNCHANGED <<sample, serialized_value, cacheVars, nsVars, calcVars, reqVars>>

NextHook == HookDumps \/ HookLoads

SpecHook == InitHook /\ [][NextHook]_vars

(***************************************************************************)
(* Several decorated functions.  cache_result(table_name, ttl_seconds)     *)
(* decorates any function: the table is the table_name the decoration was  *)
(* given and the key is built from func.__name__ and the arguments.  A     *)
(* decorated function is an identity together with its __name__ and its    *)
(* table_name; SpecNs follows whole calls (no store operation raises) of   *)
(* two decorated functions made one after the other.  To tell the stored   *)
(* values apart, function f always returns the list [f].                   *)
(***************************************************************************)
FuncIds == {1, 2}
FuncNames == {FuncName, "get_bank_transfers"}
Decorations == [name : FuncNames, table : TableNames]

\* what the decorated function f returns
ResultOf(f) == PyList(<<PyInt(f)>>)

\* wrapper(a) of function f finds a fresh row and returns its decoded value
NsHit(f, a) ==
    LET table == deco[f].table
        key == CacheKey(deco[f].name, a)
        row == FetchOne(db[table].rows, key)
    IN /\ db[table].exists
       /\ IsFresh(row, now)
       /\ served' = [fn |-> f, table |-> table, key |-> key, how |-> "hit",
                     val |-> Loads(row.value), by |-> Loads(row.value).items[1].n]
       /\ UNCHANGED <<cacheVars, deco, hookVars, calcVars, reqVars>>

\* wrapper(a) of function f creates the table if need be, finds no fresh
\* row, invokes f, upserts the result and returns it
NsMiss(f, a) ==
    LET table == deco[f].table
        key == CacheKey(deco[f].name, a)
        row == FetchOne(db[table].rows, key)
    IN /\ ~IsFresh(row, now)
       /\ db' = [db EXCEPT ![table] =
                   [exists |-> TRUE,
                    rows |-> InsertOrReplace(@.rows, key, Dumps(ResultOf(f)), now)]]
       /\ served' = [fn |-> f, table |-> table, key |-> key, how |-> "stored",
                     val |-> ResultOf(f), by |-> f]
       /\ UNCHANGED <<now, lock, pc, left, args, attempt, conn, result,
                      current_time, new_value, ncalls, why, out, lastUpsert,
                      waits, leaked>>
       /\ UNCHANGED <<deco, hookVars, calcVars, reqVars>>

\* time passes between the calls
NsTick ==
    /\ Tick
    /\ UNCHANGED nsVars

\* two decorated functions, of any names and table names, and no call yet
InitNs ==
    /\ InitStore
    /\ left = [p \in Procs |-> 0]
    /\ deco \in [FuncIds -> Decorations]
    /\ served = NoServed
    /\ HookOff /\ CalcOff /\ ReqOff

NextNs ==
    \/ NsTick
    \/ \E f \in FuncIds, a \in Args : NsHit(f, a)
    \/ \E f \in FuncIds, a \in Args : NsMiss(f, a)

SpecNs == InitNs /\ [][NextNs]_vars

(***************************************************************************)
(* The percentage calculator of accountability/rh_api.py.  A datetime is a *)
(* number of half days: OneDay is the timedelta of one day, a year of the  *)
(* model has DaysInYear days.  Year 1 is the current year: its days are    *)
(* 3 (Jan 1), 4 (Jan 2) and 5 (Jan 3); day 2 is Dec 31 of the year before. *)
(* A percentage is kept as the fraction the code divides out.              *)
(***************************************************************************)
OneDay == 2
DaysInYear == 3

\* datetime.date()
DateOf(t) == t \div OneDay
\* date.year
YearOf(d) == d \div DaysInYear
\* datetime.date(year, 1, 1)
FirstOfJanuary(year) == year * DaysInYear

PyDate(d) == [t |-> "date", n |-> d, s |-> NoStr, items |-> <<>>]

\* a / b
Fraction(a, b) == [num |-> a, den |-> b]
\* the int 0
Zero == Fraction(0, 1)

PercentageDate(date, percentage) == [date |-> date, percentage |-> percentage]
EquityHistorical(begins_at, open_equity, close_equity) ==
    [begins_at |-> begins_at, open_equity |-> open_equity,
     close_equity |-> close_equity]

\* the samples begin at midnight of Dec 31, Jan 1, Jan 2 or Jan 3
BeginsAts == {d * OneDay : d \in 2..5}

SeqsUpTo(S, n) == UNION {[1..k -> S] : k \in 0..n}
Chronological(hs) ==
    \A i \in 1..(Len(hs) - 1) : hs[i].begins_at < hs[i + 1].begins_at

\* mutant: every change is taken against the first close
PercentagesFromFirst(hs, i, prev_close, acc) ==
    [raised |-> hs[1].close_equity = 0,
     list |-> [j \in 1..Len(hs) |->
                 Fraction(hs[j].close_equity - hs[1].close_equity,
                          hs[1].close_equity)]]

\* the for loop of _get_historical_portfolio_percentage, from sample i on:
\* a division by a zero prev_close raises ZeroDivisionError
RECURSIVE PercentagesFrom(_, _, _, _)
PercentagesFrom(hs, i, prev_close, acc) ==
    IF i > Len(hs) THEN [raised |-> FALSE, list |-> acc]
    ELSE IF prev_close = 0 THEN [raised |-> TRUE, list |-> <<>>]
    ELSE PercentagesFrom(hs, i + 1, hs[i].close_equity,
             Append(acc, Fraction(hs[i].close_equity - prev_close, prev_close)))

_get_historical_portfolio_percentage(historicals) ==
    IF Len(historicals) = 0 THEN [raised |-> FALSE, list |-> <<>>]
    ELSE LET ps == PercentagesFrom(historicals, 1,
                                   historicals[1].close_equity, <<>>)
         IN IF ps.raised THEN ps
            ELSE [raised |-> FALSE,
                  list |-> [i \in 1..Len(historicals) |->
                              PercentageDate(PyDatetime(historicals[i].begins_at),
                                             ps.list[i])]]

\* the series handed to Operation A: any closes, zero included
HistoricalsA ==
    {hs \in SeqsUpTo({EquityHistorical(b, 1000, c) :
                          b \in BeginsAts, c \in {0, 1000, 1100}}, MaxLen) :
        Chronological(hs)}

InitA ==
    /\ InitStore
    /\ left = [p \in Procs |-> 0]
    /\ historical \in HistoricalsA
    /\ transfers = <<>>
    /\ percentages = <<>>
    /\ total_deposits = 0
    /\ current_transfer_idx = 0
    /\ start_equity = 0
    /\ start_date = 0
    /\ day_idx = 0
    /\ cpc = "call"
    /\ HookOff /\ NsOff /\ ReqOff

\* one call of _get_historical_portfolio_percentage(historical)
OperationA ==
    /\ cpc = "call"
    /\ LET r == _get_historical_portfolio_percentage(historical)
       IN /\ percentages' = r.list
          /\ cpc' = IF r.raised THEN "raised" ELSE "returned"
    /\ UNCHANGED <<historical, transfers, total_deposits, current_transfer_idx,
                   start_equity, start_date, day_idx>>
    /\ UNCHANGED <<cacheVars, hookVars, nsVars, reqVars>>

NextA == OperationA

SpecA == InitA /\ [][NextA]_vars

(***************************************************************************)
(* get_running_ytd_percentage, one action per block of statements.  The    *)
(* two fetches go through the cache, which is taken to hand the lists on   *)
(* as the wrapped functions returned them.                                 *)
(***************************************************************************)
BankTransfer(id, amount, direction, state, created_at, updated_at) ==
    [id |-> id, amount |-> amount, direction |-> direction, state |-> state,
     created_at |-> created_at, updated_at |-> updated_at]

\* the close of the sample that begins at b: 900, 1000, 1100, 1200
CloseOn(b) == 1000 + 50 * (b - 6)

\* the series the API hands to Operation B: a sample opens at 0 or at the
\* value it closes at
HistoricalsB ==
    {hs \in SeqsUpTo({EquityHistorical(b, IF zero THEN 0 ELSE CloseOn(b),
                                        CloseOn(b)) :
                          b \in BeginsAts, zero \in BOOLEAN}, MaxLen) :
        Chronological(hs)}

\* direction and state of a transfer
Kinds == {<<"deposit", "completed">>, <<"withdraw", "completed">>,
          <<"deposit", "pending">>}
\* created at noon of Jan 1, midnight of Jan 2, midnight or noon of Jan 3
CreatedAts == {7, 8, 10, 11}

\* the first transfer of the API's list: 500, last updated when it was
\* created or after every creation
FirstTransfers ==
    {BankTransfer(1, 500, k[1], k[2], c, IF late THEN 12 ELSE c) :
        k \in Kinds, c \in CreatedAts, late \in BOOLEAN}
\* the second one: 200, never updated
SecondTransfers ==
    {BankTransfer(2, 200, k[1], k[2], c, c) : k \in Kinds, c \in CreatedAts}
\* what rh.get_bank_transfers() returns, converted
ApiTransfers ==
    {<<>>} \cup {<<t>> : t \in FirstTransfers}
           \cup {<<t, u>> : t \in FirstTransfers, u \in SecondTransfers}

\* sorted(..., key=lambda x: x["updated_at"]), which is stable
InsertByUpdatedAt(t, ts) ==
    LET k == Cardinality({i \in 1..Len(ts) : ts[i].updated_at <= t.updated_at})
    IN SubSeq(ts, 1, k) \o <<t>> \o SubSeq(ts, k + 1, Len(ts))
RECURSIVE SortedByUpdatedAt(_)
SortedByUpdatedAt(ts) ==
    IF ts = <<>> THEN <<>>
    ELSE InsertByUpdatedAt(ts[Len(ts)],
                           SortedByUpdatedAt(SubSeq(ts, 1, Len(ts) - 1)))

get_bank_transfers(api) == SortedByUpdatedAt(api)

IsCompletedDeposit(t) == t.direction = "deposit" /\ t.state = "completed"

\* mutant: the while loop also takes a transfer created at begins_at
RECURSIVE ConsumedThrough(_, _, _, _)
ConsumedThrough(ts, idx, total, begins_at) ==
    IF idx < Len(ts) /\ ts[idx + 1].created_at <= begins_at
    THEN ConsumedThrough(ts, idx + 1,
                         IF IsCompletedDeposit(ts[idx + 1])
                         THEN total + ts[idx + 1].amount ELSE total,
                         begins_at)
    ELSE [idx |-> idx, total |-> total]

\* mutant: the pointer is back at the first transfer after the while loop
RECURSIVE ConsumedRewinding(_, _, _, _)
ConsumedRewinding(ts, idx, total, begins_at) ==
    IF idx < Len(ts) /\ ts[idx + 1].created_at < begins_at
    THEN ConsumedRewinding(ts, idx + 1,
                           IF IsCompletedDeposit(ts[idx + 1])
                           THEN total + ts[idx + 1].amount ELSE total,
                           begins_at)
    ELSE [idx |-> 0, total |-> total]

\* mutant: the while loop stops at a transfer that is not a completed deposit
RECURSIVE ConsumedDepositsOnly(_, _, _, _)
ConsumedDepositsOnly(ts, idx, total, begins_at) ==
    IF /\ idx < Len(ts)
       /\ ts[idx + 1].created_at < begins_at
       /\ IsCompletedDeposit(ts[idx + 1])
    THEN ConsumedDepositsOnly(ts, idx + 1, total + ts[idx + 1].amount, begins_at)
    ELSE [idx |-> idx, total |-> total]

\* the while loop of one day: current_transfer_idx and total_deposits after
\* it (idx counts from 0, as in the code)
RECURSIVE Consumed(_, _, _, _)
Consumed(ts, idx, total, begins_at) ==
    IF idx < Len(ts) /\ ts[idx + 1].created_at < begins_at
    THEN Consumed(ts, idx + 1,
                  IF IsCompletedDeposit(ts[idx + 1])
                  THEN total + ts[idx + 1].amount ELSE total,
                  begins_at)
    ELSE [idx |-> idx, total |-> total]

InitB ==
    /\ InitStore
    /\ left = [p \in Procs |-> 0]
    /\ historical \in HistoricalsB
    /\ transfers \in ApiTransfers
    /\ percentages = <<>>
    /\ total_deposits = 0
    /\ current_transfer_idx = 0
    /\ start_equity = 0
    /\ start_date = 0
    /\ day_idx = 0
    /\ cpc = "fetch"
    /\ HookOff /\ NsOff /\ ReqOff

\* historical = get_historical_portfolio(...); transfers = get_bank_transfers()
YtdFetch ==
    /\ cpc = "fetch"
    /\ transfers' = get_bank_transfers(transfers)
    /\ cpc' = "shift"
    /\ UNCHANGED <<historical, percentages, total_deposits,
                   current_transfer_idx, start_equity, start_date, day_idx>>
    /\ UNCHANGED <<cacheVars, hookVars, nsVars, reqVars>>

\* for transfer in transfers: transfer["created_at"] -= timedelta(days=1)
YtdShift ==
    /\ cpc = "shift"
    /\ transfers' = [i \in 1..Len(transfers) |->
                       [transfers[i] EXCEPT !.created_at = @ - OneDay]]
    /\ cpc' = "anchor"
    /\ UNCHANGED <<historical, percentages, total_deposits,
                   current_transfer_idx, start_equity, start_date, day_idx>>
    /\ UNCHANGED <<cacheVars, hookVars, nsVars, reqVars>>

\* mutant: cur_year is the year of the first sample
YtdAnchorFirstYear ==
    /\ cpc = "anchor"
    /\ IF Len(historical) = 0
       THEN /\ cpc' = "raised"
            /\ UNCHANGED <<historical, transfers, percentages, total_deposits,
                           current_transfer_idx, start_equity, start_date,
                           day_idx>>
       ELSE LET cur_year ==
                    YearOf(DateOf(historical[1].begins_at))
                first == FirstOfJanuary(cur_year)
            IN /\ start_equity' = historical[1].open_equity
               /\ start_date' = first
               /\ historical' =
                     SelectSeq(historical,
                               LAMBDA h : DateOf(h.begins_at) >= first)
               /\ transfers' =
                     SelectSeq(transfers,
                               LAMBDA t : DateOf(t.created_at) >= first)
               /\ total_deposits' = 0
               /\ current_transfer_idx' = 0
               /\ percentages' = <<PercentageDate(PyDate(first), Zero)>>
               /\ day_idx' = 2
               /\ cpc' = "loop"
    /\ UNCHANGED <<cacheVars, hookVars, nsVars, reqVars>>

\* cur_year, start_equity, start_date, the two filters, the counters and
\* the first point; historical[-1] of an empty list raises IndexError
YtdAnchor ==
    /\ cpc = "anchor"
    /\ IF Len(historical) = 0
       THEN /\ cpc' = "raised"
            /\ UNCHANGED <<historical, transfers, percentages, total_deposits,
                           current_transfer_idx, start_equity, start_date,
                           day_idx>>
       ELSE LET cur_year ==
                    YearOf(DateOf(historical[Len(historical)].begins_at))
                first == FirstOfJanuary(cur_year)
            IN /\ start_equity' = historical[1].open_equity
               /\ start_date' = first
               /\ historical' =
                     SelectSeq(historical,
                               LAMBDA h : DateOf(h.begins_at) >= first)
               /\ transfers' =
                     SelectSeq(transfers,
                               LAMBDA t : DateOf(t.created_at) >= first)
               /\ total_deposits' = 0
               /\ current_transfer_idx' = 0
               /\ percentages' = <<PercentageDate(PyDate(first), Zero)>>
               /\ day_idx' = 2
               /\ cpc' = "loop"
    /\ UNCHANGED <<cacheVars, hookVars, nsVars, reqVars>>

\* mutant: the point is emitted without the test of adjusted_start
YtdDayUnguarded ==
    /\ cpc = "loop"
    /\ day_idx <= Len(historical)
    /\ LET day == historical[day_idx]
           c == Consumed(transfers, current_transfer_idx, total_deposits,
                         day.begins_at)
           adjusted_start == start_equity + c.total
       IN /\ current_transfer_idx' = c.idx
          /\ total_deposits' = c.total
          /\ percentages' =
                Append(percentages,
                       PercentageDate(PyDatetime(day.begins_at),
                           Fraction(day.close_equity - adjusted_start,
                                    adjusted_start)))
    /\ day_idx' = day_idx + 1
    /\ UNCHANGED <<historical, transfers, start_equity, start_date, cpc>>
    /\ UNCHANGED <<cacheVars, hookVars, nsVars, reqVars>>

\* one iteration of for day in historical[1:]
YtdDay ==
    /\ cpc = "loop"
    /\ day_idx <= Len(historical)
    /\ LET day == historical[day_idx]
           c == Consumed(transfers, current_transfer_idx, total_deposits,
                         day.begins_at)
           adjusted_start == start_equity + c.total
       IN /\ current_transfer_idx' = c.idx
          /\ total_deposits' = c.total
          /\ percentages' =
                IF adjusted_start # 0
                THEN Append(percentages,
                            PercentageDate(PyDatetime(day.begins_at),
                                Fraction(day.close_equity - adjusted_start,
                                         adjusted_start)))
                ELSE percentages
    /\ day_idx' = day_idx + 1
    /\ UNCHANGED <<historical, transfers, start_equity, start_date, cpc>>
    /\ UNCHANGED <<cacheVars, hookVars, nsVars, reqVars>>

\* return percentages
YtdReturn ==
    /\ cpc = "loop"
    /\ day_idx > Len(historical)
    /\ cpc' = "returned"
    /\ UNCHANGED <<historical, transfers, percentages, total_deposits,
                   current_transfer_idx, start_equity, start_date, day_idx>>
    /\ UNCHANGED <<cacheVars, hookVars, nsVars, reqVars>>

NextB == YtdFetch \/ YtdShift \/ YtdAnchor \/ YtdDay \/ YtdReturn

SpecB == InitB /\ [][NextB]_vars

(***************************************************************************)
(* Requests served through the two cached fetches of rh_api.  A TypedDict  *)
(* is a dict: the lists the two decorated functions return are written to  *)
(* the cache and read back as Python values.  The store raises nothing     *)
(* here; the calls of one request read the clock at the same moment.       *)
(***************************************************************************)
PyOfTransfer(t) ==
    PyDict(<<PyItem(PyStr(Lit("id")), PyInt(t.id)),
             PyItem(PyStr(Lit("amount")), PyInt(t.amount)),
             PyItem(PyStr(Lit("direction")), PyStr(Lit(t.direction))),
             PyItem(PyStr(Lit("state")), PyStr(Lit(t.state))),
             PyItem(PyStr(Lit("created_at")), PyDatetime(t.created_at)),
             PyItem(PyStr(Lit("updated_at")), PyDatetime(t.updated_at))>>)
\* transfer["amount"], transfer["created_at"], ... of a dict read back
TransferOfPy(v) ==
    BankTransfer(Member(v.items, Lit("id")).n,
                 Member(v.items, Lit("amount")).n,
                 Member(v.items, Lit("direction")).s.lit,
                 Member(v.items, Lit("state")).s.lit,
                 Member(v.items, Lit("created_at")).n,
                 Member(v.items, Lit("updated_at")).n)

PyOfEquity(h) ==
    PyDict(<<PyItem(PyStr(Lit("begins_at")), PyDatetime(h.begins_at)),
             PyItem(PyStr(Lit("open_equity")), PyInt(h.open_equity)),
             PyItem(PyStr(Lit("close_equity")), PyInt(h.close_equity))>>)
EquityOfPy(v) ==
    EquityHistorical(Member(v.items, Lit("begins_at")).n,
                     Member(v.items, Lit("open_equity")).n,
                     Member(v.items, Lit("close_equity")).n)

PyOfTransfers(ts) == PyList([i \in 1..Len(ts) |-> PyOfTransfer(ts[i])])
PyOfEquities(hs) == PyList([i \in 1..Len(hs) |-> PyOfEquity(hs[i])])

\* the body of get_historical_portfolio: result["equity_historicals"]
get_historical_portfolio(equity) == PyOfEquities(equity)

\* the keys of the two calls get_running_ytd_percentage makes
PortfolioKey == CacheKey("get_historical_portfolio", 1)
BankKey == CacheKey("get_bank_transfers", 0)

\* wrapper() when the store raises nothing: a fresh row is decoded and
\* returned; otherwise func runs once, its result is written with the time
\* read before it ran, and the result itself is returned
CachedCall(row, key, value) ==
    IF IsFresh(row, now)
    THEN [value |-> Loads(row.value), row |-> row, invoked |-> 0]
    ELSE [value |-> value, invoked |-> 1,
          row |-> [key |-> key, value |-> Dumps(value), timestamp |-> now]]

\* the data source of the requests: a series of two samples or more, all
\* of the current year and opening above 0, and transfers that are
\* completed deposits
Sources ==
    [equity : {hs \in HistoricalsB :
                  /\ Len(hs) >= 2
                  /\ \A i \in 1..Len(hs) :
                        /\ hs[i].open_equity # 0
                        /\ YearOf(DateOf(hs[i].begins_at)) = 1},
     bank : {ts \in ApiTransfers :
                \A i \in 1..Len(ts) : IsCompletedDeposit(ts[i])}]

Answer(kind, at, equity_fetches, bank_fetches, done, output) ==
    [kind |-> kind, at |-> at, equity_fetches |-> equity_fetches,
     bank_fetches |-> bank_fetches, done |-> done, out |-> output]

InitReq ==
    /\ InitStore
    /\ left = [p \in Procs |-> 0]
    /\ source \in Sources
    /\ cached = [portfolio |-> NoRow, bank |-> NoRow]
    /\ answers = <<>>
    /\ historical = <<>>
    /\ transfers = <<>>
    /\ percentages = <<>>
    /\ total_deposits = 0
    /\ current_transfer_idx = 0
    /\ start_equity = 0
    /\ start_date = 0
    /\ day_idx = 0
    /\ cpc = "request"
    /\ HookOff /\ NsOff

\* a request of get_historical_portfolio_percentage(): it calls
\* rh.get_historical_portfolio itself and answers with the simple series
ReqSimple ==
    /\ cpc = "request"
    /\ Len(answers) < SeqCalls
    /\ answers' =
          Append(answers,
                 Answer("simple", now, 1, 0, TRUE,
                        _get_historical_portfolio_percentage(source.equity).list))
    /\ UNCHANGED <<source, cached, calcVars>>
    /\ UNCHANGED <<cacheVars, hookVars, nsVars>>

\* mutant: the row of get_bank_transfers holds the list the caller is
\* about to shift, as the shift leaves it
ReqYtdFetchShared ==
    /\ cpc = "request"
    /\ Len(answers) < SeqCalls
    /\ LET h == CachedCall(cached.portfolio, PortfolioKey,
                           get_historical_portfolio(source.equity))
           t == CachedCall(cached.bank, BankKey,
                           PyOfTransfers(get_bank_transfers(source.bank)))
       IN /\ historical' = [i \in 1..Len(h.value.items) |->
                               EquityOfPy(h.value.items[i])]
          /\ transfers' = [i \in 1..Len(t.value.items) |->
                              TransferOfPy(t.value.items[i])]
          /\ cached' =
                [portfolio |-> h.row,
                 bank |-> [t.row EXCEPT !.value =
                             Dumps(PyList([i \in 1..Len(t.value.items) |->
                                 PyOfTransfer(
                                     [TransferOfPy(t.value.items[i])
                                         EXCEPT !.created_at = @ - OneDay])]
                                 \o <<>>))]]
          /\ answers' = Append(answers,
                               Answer("ytd", now, h.invoked, t.invoked,
                                      FALSE, <<>>))
    /\ cpc' = "shift"
    /\ UNCHANGED <<source, percentages, total_deposits, current_transfer_idx,
                   start_equity, start_date, day_idx>>
    /\ UNCHANGED <<cacheVars, hookVars, nsVars>>

\* a request of get_running_ytd_percentage(): the two fetches, each through
\* its wrapper
ReqYtdFetch ==
    /\ cpc = "request"
    /\ Len(answers) < SeqCalls
    /\ LET h == CachedCall(cached.portfolio, PortfolioKey,
                           get_historical_portfolio(source.equity))
           t == CachedCall(cached.bank, BankKey,
                           PyOfTransfers(get_bank_transfers(source.bank)))
       IN /\ historical' = [i \in 1..Len(h.value.items) |->
                               EquityOfPy(h.value.items[i])]
          /\ transfers' = [i \in 1..Len(t.value.items) |->
                              TransferOfPy(t.value.items[i])]
          /\ cached' = [portfolio |-> h.row, bank |-> t.row]
          /\ answers' = Append(answers,
                               Answer("ytd", now, h.invoked, t.invoked,
                                      FALSE, <<>>))
    /\ cpc' = "shift"
    /\ UNCHANGED <<source, percentages, total_deposits, current_transfer_idx,
                   start_equity, start_date, day_idx>>
    /\ UNCHANGED <<cacheVars, hookVars, nsVars>>

\* the request is answered with what get_running_ytd_percentage returned;
\* its locals are gone
ReqYtdDone ==
    /\ cpc = "returned"
    /\ answers # <<>>
    /\ answers' = [answers EXCEPT ![Len(answers)].done = TRUE,
                                  ![Len(answers)].out = percentages]
    /\ historical' = <<>>
    /\ transfers' = <<>>
    /\ percentages' = <<>>
    /\ total_deposits' = 0
    /\ current_transfer_idx' = 0
    /\ start_equity' = 0
    /\ start_date' = 0
    /\ day_idx' = 0
    /\ cpc' = "request"
    /\ UNCHANGED <<source, cached>>
    /\ UNCHANGED <<cacheVars, hookVars, nsVars>>

\* time passes between two requests
ReqTick ==
    /\ cpc = "request"
    /\ Tick

NextReq ==
    \/ ReqTick
    \/ ReqSimple
    \/ ReqYtdFetch
    \/ YtdShift
    \/ YtdAnchor
    \/ YtdDay
    \/ YtdReturn
    \/ ReqYtdDone

SpecReq == InitReq /\ [][NextReq]_vars

(***************************************************************************)
(* Vocabulary of the properties.                                           *)
(***************************************************************************)
Rows == db[TableName].rows

\* a step that ends a call of p
Finishes(p) == pc[p] # "idle" /\ pc'[p] = "idle"

\* the endings of a call in which no store operation raised
NoStoreError == {"hit", "loads_error", "stored", "dumps_error"}

\* the endings of a call after which func has run and no row was read fresh
Degraded == {"connect_exhausted", "create_error", "select_error",
             "upsert_exhausted", "insert_error"}

\* the clock value the call of p compared the row's timestamp with
CheckTime(p) == IF pc[p] = "check" THEN now ELSE current_time[p]

\* the key of the call p is in
KeyOf(p) == CacheKey(FuncName, args[p])

(***************************************************************************)
(* C1: after a call that missed, computed and stored, a second call with   *)
(* the same argument whose clock reading is less than ttl after the stored *)
(* timestamp does not invoke func: func ran once over the two calls and    *)
(* both calls return the same value.                                       *)
(***************************************************************************)
C1_SecondCallSameValue ==
    [][\A p \in Procs :
        ( /\ Finishes(p)
          /\ out[p].how = "stored"
          /\ out'[p].key = out[p].key
          /\ out'[p].how \in NoStoreError
          /\ FetchOne(Rows, KeyOf(p)) # NoRow
          /\ CheckTime(p) - FetchOne(Rows, KeyOf(p)).timestamp < Ttl )
        => ( /\ out[p].n = 1
             /\ out'[p].n = 0
             /\ ~out'[p].raised
             /\ out'[p].val = out[p].val )]_vars

\* the part of C1 about the number of invocations alone
C1_InvokedOnce ==
    [][\A p \in Procs :
        ( /\ Finishes(p)
          /\ out[p].how = "stored"
          /\ out'[p].key = out[p].key
          /\ out'[p].how \in NoStoreError
          /\ FetchOne(Rows, KeyOf(p)) # NoRow
          /\ CheckTime(p) - FetchOne(Rows, KeyOf(p)).timestamp < Ttl )
        => ( /\ out[p].n = 1
             /\ out'[p].n = 0
             /\ ~out'[p].raised
             /\ out'[p].val = Loads(Dumps(out[p].val)) )]_vars


(***************************************************************************)
(* C2: a call that finds a row whose age is ttl or more (equal included)   *)
(* invokes func again and, when its write commits, leaves for the key      *)
(* exactly the row (new value, timestamp of this call); a call that finds  *)
(* a row younger than ttl is a hit on that row.                            *)
(***************************************************************************)
C2_ExpiredRowRecomputed ==
    [][\A p \in Procs :
        ( /\ Finishes(p)
          /\ out'[p].how \in NoStoreError
          /\ FetchOne(Rows, KeyOf(p)) # NoRow )
        => LET row == FetchOne(Rows, KeyOf(p))
               age == CheckTime(p) - row.timestamp
           IN /\ age >= Ttl =>
                   /\ out'[p].n = 1
                   /\ out'[p].how \in {"stored", "dumps_error"}
                   /\ out'[p].how = "stored" =>
                        RowsOf(Rows', KeyOf(p)) =
                            {[key |-> KeyOf(p),
                              value |-> Dumps(out'[p].val),
                              timestamp |-> CheckTime(p)]}
              /\ age < Ttl =>
                   /\ out'[p].n = 0
                   /\ out'[p].how \in {"hit", "loads_error"}
                   /\ out'[p].how = "hit" => out'[p].val = Loads(row.value)]_vars

\* a call that found a row of age exactly ttl has invoked func and is about
\* to commit its write
C2_Witness ==
    /\ pc[1] = "commit"
    /\ ncalls[1] = 1
    /\ FetchOne(Rows, KeyOf(1)) # NoRow
    /\ current_time[1] - FetchOne(Rows, KeyOf(1)).timestamp = Ttl

(***************************************************************************)
(* C3: the step that serves a fresh row ends the call without invoking     *)
(* func and leaves the store (every row's key, value and timestamp) as it  *)
(* was.                                                                    *)
(***************************************************************************)
C3_HitChangesNothing ==
    [][\A p \in Procs :
        ( /\ pc[p] = "check"
          /\ pc'[p] # "check"
          /\ result[p] # NoRow
          /\ now - result[p].timestamp < Ttl )
        => ( /\ db' = db
             /\ Finishes(p)
             /\ out'[p].how \in {"hit", "loads_error"}
             /\ out'[p].n = 0 )]_vars

\* a hit on a row written at an earlier clock value
C3_Witness ==
    /\ out[1].how = "hit"
    /\ out[1].n = 0
    /\ \E r \in Rows : r.key = out[1].key /\ r.timestamp < now

(***************************************************************************)
(* C4: every call that is not a hit invokes func exactly once, whatever    *)
(* path it takes.                                                          *)
(***************************************************************************)
C4_MissInvokesOnce ==
    \A p \in Procs :
        out[p].how \in ({"stored", "dumps_error"} \cup Degraded) => out[p].n = 1

(***************************************************************************)
(* C5: a call whose upsert failed on all MAX_RETRIES attempts ends by      *)
(* raising: it returns no value.                                           *)
(***************************************************************************)
C5_UpsertExhaustedRaises ==
    \A p \in Procs : out[p].how = "upsert_exhausted" => out[p].raised

(***************************************************************************)
(* C6: a call whose connection failed on all MAX_RETRIES attempts of       *)
(* __enter__ ends by raising: it returns no value.                         *)
(***************************************************************************)
C6_ConnectExhaustedRaises ==
    \A p \in Procs : out[p].how = "connect_exhausted" => out[p].raised

(***************************************************************************)
(* C7: a call in which CREATE TABLE or the SELECT raises a sqlite3.Error   *)
(* returns the result of one direct invocation of func, raises nothing,    *)
(* and none of its steps up to and including the fallback changes a row.   *)
(***************************************************************************)
C7_EarlyStoreErrorDegrades ==
    [][\A p \in Procs :
        /\ ( /\ pc'[p] # pc[p]
             /\ \/ pc[p] \in {"idle", "enter", "create", "select"}
                \/ pc[p] = "fallback" /\ why[p] \in {"create_error", "select_error"} )
           => Rows' = Rows
        /\ ( /\ Finishes(p)
             /\ out'[p].how \in {"create_error", "select_error"} )
           => ( /\ ~out'[p].raised
                /\ out'[p].n = 1
                /\ out'[p].val \in Results )]_vars

\* a call has ended after its SELECT raised, with rows in the table
C7_Witness ==
    /\ out[1].how = "select_error"
    /\ ~out[1].raised
    /\ Rows # {}

(***************************************************************************)
(* C8: in every reachable state every table holds at most one row per key, *)
(* and that row is the one of the latest committed upsert for the key      *)
(* (its value and its timestamp).                                          *)
(***************************************************************************)
C8_OneRowPerKey ==
    /\ \A t \in TableNames : \A r1, r2 \in db[t].rows :
          r1.key = r2.key => r1 = r2
    /\ \A k \in Keys :
          RowsOf(Rows, k) =
              IF lastUpsert[k] = NoUpsert THEN {}
              ELSE {[key |-> k, value |-> Dumps(lastUpsert[k].val),
                     timestamp |-> lastUpsert[k].ts]}

\* two calls have written different values for the same key
C8_Witness ==
    /\ out[1].how = "stored"
    /\ out[2].how = "stored"
    /\ out[1].key = out[2].key
    /\ out[1].val # out[2].val

(***************************************************************************)
(* C9: no step removes a row: a row of the table is still there after the  *)
(* step, unless the step commits an upsert for the row's key, and then the *)
(* key still has a row.                                                    *)
(***************************************************************************)
C9_RowsNeverRemoved ==
    [][\A r \in Rows :
        \/ r \in Rows'
        \/ /\ \E p \in Procs :
                /\ pc[p] = "commit"
                /\ Finishes(p)
                /\ out'[p].how = "stored"
                /\ KeyOf(p) = r.key
           /\ \E r2 \in Rows' : r2.key = r.key]_vars

\* a call that found an expired row and failed to write has left the row
C9_Witness ==
    /\ out[1].how = "upsert_exhausted"
    /\ \E r \in Rows : r.key = out[1].key /\ now - r.timestamp >= Ttl

(***************************************************************************)
(* C10: when both processes have called the wrapper for the same key and   *)
(* no store operation raised in either call (each call stored its result   *)
(* or was a hit), the table holds exactly one row for the key and its      *)
(* value is the one written by the upsert that committed last, which is    *)
(* the result of one of the two calls.                                     *)
(***************************************************************************)
C10_LastUpsertWins ==
    ( /\ out[1].how \in {"stored", "hit"}
      /\ out[2].how \in {"stored", "hit"}
      /\ out[1].key = out[2].key )
    => /\ Cardinality(RowsOf(Rows, out[1].key)) = 1
       /\ \E p \in Procs :
             /\ out[p].how = "stored"
             /\ lastUpsert[out[1].key].val = out[p].val
       /\ \A r \in RowsOf(Rows, out[1].key) :
             r.value = Dumps(lastUpsert[out[1].key].val)

\* both processes read a miss for the same key before either had written
\* (the clock has not moved, so a committed row would have been fresh) and
\* both invoked func
C10_Witness ==
    /\ now = 0
    /\ out[1].how = "stored"
    /\ out[2].how = "stored"
    /\ out[1].key = out[2].key
    /\ out[1].n = 1
    /\ out[2].n = 1
    /\ out[1].val # out[2].val

(***************************************************************************)
(* C11 as stated: two concurrent writers of distinct keys never block each *)
(* other: whenever a writer is about to execute its INSERT and the other   *)
(* process is inside a write of a different key, the INSERT can execute.   *)
(***************************************************************************)
C11_NoCrossKeyBlocking ==
    \A p, q \in Procs :
        ( /\ p # q
          /\ pc[p] = "insert"
          /\ Dumps(new_value[p]) # Raised
          /\ pc[q] = "commit"
          /\ KeyOf(q) # KeyOf(p) )
        => ENABLED InsertOk(p)

(***************************************************************************)
(* C11: the write lock covers the whole store: a process whose write       *)
(* transaction is open is the only holder of the lock, so no two writers   *)
(* are inside a transaction together, whatever their keys; while another   *)
(* process holds the lock an INSERT cannot execute (it waits, or raises    *)
(* the contention error that the retry loop counts); and no upsert loop    *)
(* goes beyond attempt MAX_RETRIES - 1.                                    *)
(***************************************************************************)
C11_WritersExcludeEachOther ==
    \A p \in Procs :
        /\ pc[p] = "commit" => lock = {p}
        /\ (pc[p] = "insert" /\ lock \ {p} # {}) => ~ENABLED InsertOk(p)
        /\ pc[p] \in {"insert", "commit"} => attempt[p] < MAX_RETRIES

\* a writer on its last attempt finds the lock held by a writer of another
\* key: its last INSERT cannot execute
C11_Witness ==
    /\ pc[1] = "insert"
    /\ attempt[1] = MAX_RETRIES - 1
    /\ pc[2] = "commit"
    /\ lock = {2}
    /\ KeyOf(1) # KeyOf(2)

(***************************************************************************)
(* C12: whenever no call of a process is in progress (its latest call has  *)
(* returned or raised), every connection the process opened is closed: the *)
(* one of the with block and those opened by attempts of __enter__ that    *)
(* raised.                                                                 *)
(***************************************************************************)
C12_AllConnectionsClosed ==
    \A p \in Procs : pc[p] = "idle" => (~conn[p] /\ leaked[p] = 0)

(***************************************************************************)
(* C13: each retry loop makes at most MAX_RETRIES attempts in a call: the  *)
(* loop variable stays within 0..MAX_RETRIES-1; inside a loop that is at   *)
(* attempt k the sleeps made so far are those of the failed attempts       *)
(* 0..k-1, attempt j having slept 100 ms * 2^j; a loop that has given up   *)
(* has slept after its first four failures only (100, 200, 400, 800 ms)    *)
(* and not after the fifth; outside the loops no attempt is counted and    *)
(* nothing was slept (the first success has ended the loop); and the       *)
(* upsert loop starts at attempt 0 with no sleep behind it.                *)
(***************************************************************************)
WaitsAfter(k) == [j \in 1..k |-> 100 * (2 ^ (j - 1))]

InLoop == {"enter", "insert", "commit"}

C13_RetryBudget ==
    [][\A p \in Procs :
        /\ attempt'[p] \in 0..(MAX_RETRIES - 1)
        /\ pc'[p] \in InLoop => waits'[p] = WaitsAfter(attempt'[p])
        /\ (pc'[p] = "fallback"
              /\ why'[p] \in {"connect_exhausted", "upsert_exhausted"})
           => waits'[p] = WaitsAfter(4)
        /\ (pc'[p] \notin InLoop /\ pc'[p] # "fallback")
           => (attempt'[p] = 0 /\ waits'[p] = <<>>)
        /\ (pc[p] = "compute" /\ pc'[p] = "insert")
           => (attempt'[p] = 0 /\ waits'[p] = <<>>)
        /\ (pc[p] \in InLoop /\ attempt'[p] # attempt[p] /\ pc'[p] \in InLoop)
           => ( /\ attempt'[p] = attempt[p] + 1
                /\ waits'[p] = Append(waits[p], 100 * (2 ^ attempt[p])) )]_vars

\* an upsert loop has given up after its fifth failure, having slept four
\* times
C13_Witness ==
    /\ pc[1] = "fallback"
    /\ why[1] = "upsert_exhausted"
    /\ waits[1] = <<100, 200, 400, 800>>

(***************************************************************************)
(* C14: each decorated function has its own namespace: whatever the names  *)
(* and table names of two distinct decorated functions, the value a call   *)
(* of one returns was stored by (or just computed by) that function, never *)
(* by the other.                                                           *)
(***************************************************************************)
C14_OwnNamespace ==
    served.how # "none" => served.by = served.fn

(***************************************************************************)
(* C15: the datetimes in a result survive the cache: when the text written *)
(* for a result has been decoded, the decoding has not raised and the      *)
(* decoded result holds, in the same order, datetimes equal to those of    *)
(* the result; a result that is a datetime comes back as that datetime.    *)
(***************************************************************************)
RECURSIVE Timestamps(_), TimestampsOfAll(_)
TimestampsOfAll(xs) ==
    IF xs = <<>> THEN <<>>
    ELSE Timestamps(Head(xs)) \o TimestampsOfAll(Tail(xs))
Timestamps(v) ==
    IF v.t = "datetime" THEN <<v.n>> ELSE TimestampsOfAll(v.items)

C15_TimestampRoundTrip ==
    /\ hpc # "loads_raised"
    /\ hpc = "loaded" =>
          /\ Timestamps(decoded) = Timestamps(sample)
          /\ sample.t = "datetime" => decoded = sample

\* the result of the test, a dict holding a datetime, has come back equal
C15_Witness ==
    /\ hpc = "loaded"
    /\ sample = PyDict(<<PyItem(PyStr(Lit("date")), PyDatetime(1))>>)
    /\ decoded = sample

(***************************************************************************)
(* C16: when the computed result cannot be serialized, the first attempt   *)
(* of the upsert loop ends the call by raising: the attempt is not         *)
(* retried, the fallback is not entered, func was invoked once and no      *)
(* value is returned; the call never reaches the commit, and only a step   *)
(* from the commit changes a row, so the rows are those of before the      *)
(* call.                                                                   *)
(***************************************************************************)
C16_DumpsErrorRaised ==
    [][\A p \in Procs :
        /\ ( /\ pc[p] = "insert"
             /\ Dumps(new_value[p]) = Raised
             /\ (pc'[p] # pc[p] \/ attempt'[p] # attempt[p]) )
           => ( /\ attempt[p] = 0
                /\ Finishes(p)
                /\ out'[p].how = "dumps_error"
                /\ out'[p].raised
                /\ out'[p].val = Raised
                /\ out'[p].n = 1
                /\ ~conn'[p]
                /\ Rows' = Rows )
        /\ pc'[p] = "commit" => Dumps(new_value'[p]) # Raised
        /\ (pc[p] # "commit" /\ (pc'[p] # pc[p] \/ attempt'[p] # attempt[p]))
           => Rows' = Rows]_vars

\* a call that found an expired row has raised the serialization error and
\* the row is still there
C16_Witness ==
    /\ out[1].how = "dumps_error"
    /\ out[1].raised
    /\ \E r \in Rows : r.key = out[1].key /\ now - r.timestamp >= Ttl

(***************************************************************************)
(* C17: for a chronological series of N samples whose closes are not zero, *)
(* _get_historical_portfolio_percentage returns N pairs in the order of    *)
(* the samples: pair i has the begins_at of sample i, the first percentage *)
(* is 0 and pair i >= 2 has (close_i - close_(i-1)) / close_(i-1); for the *)
(* empty series it returns the empty list.                                 *)
(***************************************************************************)
C17_SimplePercentages ==
    (cpc # "call" /\ \A i \in 1..Len(historical) : historical[i].close_equity # 0)
    => /\ cpc = "returned"
       /\ Len(percentages) = Len(historical)
       /\ \A i \in 1..Len(historical) :
             /\ percentages[i].date = PyDatetime(historical[i].begins_at)
             /\ percentages[i].percentage.den # 0
             /\ i = 1 => percentages[i].percentage.num = 0
             /\ i > 1 => percentages[i].percentage =
                            Fraction(historical[i].close_equity
                                        - historical[i - 1].close_equity,
                                     historical[i - 1].close_equity)

\* a series of three samples with a rise and then a fall has been answered
C17_Witness ==
    /\ cpc = "returned"
    /\ Len(historical) = 3
    /\ historical[1].close_equity < historical[2].close_equity
    /\ historical[3].close_equity < historical[2].close_equity
    /\ Len(percentages) = 3

(***************************************************************************)
(* C18: the start_equity that every adjusted_start is built on is the      *)
(* open_equity of the first sample of the series that is left after the    *)
(* filter on the current year.                                             *)
(***************************************************************************)
C18_StartEquityAfterFilter ==
    cpc \in {"loop", "returned"} => start_equity = historical[1].open_equity

(***************************************************************************)
(* Vocabulary of the claims about the loop of get_running_ytd_percentage.  *)
(***************************************************************************)
\* an iteration of the for loop has run
DayDone == cpc \in {"loop", "returned"} /\ day_idx > 2
\* the sample of the latest iteration
LastDay == historical[day_idx - 1]

\* the amounts of the completed deposits among the first n transfers
RECURSIVE DepositsAmong(_, _)
DepositsAmong(ts, n) ==
    IF n = 0 THEN 0
    ELSE DepositsAmong(ts, n - 1)
            + (IF IsCompletedDeposit(ts[n]) THEN ts[n].amount ELSE 0)

\* the example: equity Jan 1 (open 1000, close 1000) and Jan 2 (close 1100),
\* one completed deposit of 500 created on Jan 3, which the shift has moved
\* to Jan 2 (start_equity is the open of Jan 1: the series had no sample of
\* the year before)
ExampleShifted ==
    /\ cpc \in {"loop", "returned"}
    /\ start_equity = 1000
    /\ Len(historical) = 2
    /\ historical[1] = EquityHistorical(6, 1000, 1000)
    /\ historical[2].begins_at = 8
    /\ historical[2].close_equity = 1100
    /\ Len(transfers) = 1
    /\ IsCompletedDeposit(transfers[1])
    /\ transfers[1].amount = 500
    /\ DateOf(transfers[1].created_at) = DateOf(8)

(***************************************************************************)
(* C19 as stated: a completed deposit created on day D+1, which the shift  *)
(* moves to day D, is in the baseline of the point of day D; in the        *)
(* example the Jan 2 point has the baseline 1500 and the percentage        *)
(* (1100 - 1500) / 1500.                                                   *)
(***************************************************************************)
C19_NextDayDepositCounted ==
    /\ DayDone =>
          \A i \in 1..Len(transfers) :
              ( /\ IsCompletedDeposit(transfers[i])
                /\ DateOf(transfers[i].created_at) = DateOf(LastDay.begins_at) )
              => i <= current_transfer_idx
    /\ (ExampleShifted /\ cpc = "returned") =>
          /\ Len(percentages) = 2
          /\ percentages[2].percentage = Fraction(1100 - 1500, 1500)

(***************************************************************************)
(* C19: the baseline of the point of a day holds only transfers whose      *)
(* shifted created_at is strictly before the day's begins_at: after the    *)
(* iteration of a day every consumed transfer is strictly before its       *)
(* begins_at, total_deposits is the sum of the completed deposits among    *)
(* the consumed transfers, and the point of the day, if one was emitted,   *)
(* is taken against start_equity + total_deposits.  A deposit created on   *)
(* day D+1 lies, shifted, on day D, not before D's midnight begins_at: in  *)
(* the example the Jan 2 point has the baseline 1000 and the percentage    *)
(* (1100 - 1000) / 1000.                                                   *)
(***************************************************************************)
C19_OnlyEarlierTransfersCounted ==
    /\ DayDone =>
          /\ \A i \in 1..current_transfer_idx :
                transfers[i].created_at < LastDay.begins_at
          /\ total_deposits = DepositsAmong(transfers, current_transfer_idx)
          /\ percentages[Len(percentages)].date = PyDatetime(LastDay.begins_at)
                => percentages[Len(percentages)].percentage =
                     Fraction(LastDay.close_equity - (start_equity + total_deposits),
                              start_equity + total_deposits)
    /\ (ExampleShifted /\ cpc = "returned") =>
          /\ current_transfer_idx = 0
          /\ percentages = <<PercentageDate(PyDate(FirstOfJanuary(1)), Zero),
                              PercentageDate(PyDatetime(8),
                                             Fraction(1100 - 1000, 1000))>>

\* the example has returned, the deposit created exactly at midnight of Jan 3
\* was not consumed
C19_Witness ==
    /\ ExampleShifted
    /\ cpc = "returned"
    /\ transfers[1].created_at = 8
    /\ current_transfer_idx = 0
    /\ Len(percentages) = 2

(***************************************************************************)
(* C20: after the iteration of an equity day, total_deposits is the sum of *)
(* the amounts of all the completed deposits of the filtered transfer list *)
(* (the list get_bank_transfers returned, shifted) whose created_at is     *)
(* strictly before the day's begins_at, and none of them lies at or behind *)
(* the pointer.                                                            *)
(***************************************************************************)
RECURSIVE DepositsBefore(_, _, _)
DepositsBefore(ts, n, begins_at) ==
    IF n = 0 THEN 0
    ELSE DepositsBefore(ts, n - 1, begins_at)
            + (IF IsCompletedDeposit(ts[n]) /\ ts[n].created_at < begins_at
               THEN ts[n].amount ELSE 0)

C20_AllEarlierDepositsCounted ==
    DayDone =>
        /\ total_deposits =
              DepositsBefore(transfers, Len(transfers), LastDay.begins_at)
        /\ \A i \in (current_transfer_idx + 1)..Len(transfers) :
              ~( /\ IsCompletedDeposit(transfers[i])
                 /\ transfers[i].created_at < LastDay.begins_at )

RECURSIVE PointsFrom(_, _, _, _, _, _, _)
PointsFrom(hs, i, ts, idx, total, equity, acc) ==
    IF i > Len(hs) THEN acc
    ELSE LET c == Consumed(ts, idx, total, hs[i].begins_at)
             adjusted_start == equity + c.total
         IN PointsFrom(hs, i + 1, ts, c.idx, c.total, equity,
                IF adjusted_start # 0
                THEN Append(acc,
                            PercentageDate(PyDatetime(hs[i].begins_at),
                                Fraction(hs[i].close_equity - adjusted_start,
                                         adjusted_start)))
                ELSE acc)

\* the transfer lies, after the shift, after the begins_at of the last sample
IsLate(t) == t.created_at > historical[Len(historical)].begins_at

(***************************************************************************)
(* C22: a transfer whose (shifted) created_at is after the begins_at of    *)
(* the last equity sample is never consumed, and the returned points are   *)
(* the points the loop returns for the transfer list without it.           *)
(***************************************************************************)
C22_LateTransferIgnored ==
    cpc = "returned" =>
        /\ \A i \in 1..current_transfer_idx : ~IsLate(transfers[i])
        /\ percentages =
              PointsFrom(historical, 2,
                         SelectSeq(transfers, LAMBDA t : ~IsLate(t)), 0, 0,
                         start_equity,
                         <<PercentageDate(PyDate(start_date), Zero)>>)

(***************************************************************************)
(* C23: the iteration of a day whose adjusted_start, start_equity plus the *)
(* total_deposits of that day, is 0 emits no point and raises nothing, the *)
(* iteration of any other day emits exactly one point; no emitted point    *)
(* has a zero divisor.  So the output has one element more than there are  *)
(* days after the first with a non-zero adjusted_start.                    *)
(***************************************************************************)
C23_ZeroBaselineSkipped ==
    [][(cpc = "loop" /\ day_idx' = day_idx + 1) =>
          /\ cpc' = "loop"
          /\ IF start_equity + total_deposits' = 0
             THEN percentages' = percentages
             ELSE /\ Len(percentages') = Len(percentages) + 1
                  /\ SubSeq(percentages', 1, Len(percentages)) = percentages
          /\ \A i \in 1..Len(percentages') :
                percentages'[i].percentage.den # 0]_vars

\* of three samples the second had the baseline 0 and gave no point, the
\* third, after a deposit, gave one
C23_Witness ==
    /\ cpc = "returned"
    /\ Len(historical) = 3
    /\ start_equity = 0
    /\ total_deposits > 0
    /\ Len(percentages) = 2
    /\ percentages[2].date = PyDatetime(historical[3].begins_at)

(***************************************************************************)
(* C24: for a non-empty chronological equity series the output is not      *)
(* empty, its first element is the date of Jan 1 of the year of the last   *)
(* sample with the percentage 0, and the elements after it carry begins_at *)
(* values of samples of that year, in the order of the series and each at  *)
(* most once.                                                              *)
(***************************************************************************)
C24_ChronologicalFromJanuary ==
    cpc \in {"loop", "returned"} =>
        LET cur_year == YearOf(DateOf(historical[Len(historical)].begins_at))
        IN /\ Len(percentages) >= 1
           /\ percentages[1] =
                 PercentageDate(PyDate(FirstOfJanuary(cur_year)), Zero)
           /\ \A i \in 2..Len(percentages) :
                 /\ \E j \in 1..Len(historical) :
                       percentages[i].date = PyDatetime(historical[j].begins_at)
                 /\ YearOf(DateOf(percentages[i].date.n)) = cur_year
                 /\ \A k \in 2..(i - 1) :
                       percentages[k].date.n < percentages[i].date.n

\* a series that began on Dec 31 of the year before has been answered with
\* Jan 1 and one point
C24_Witness ==
    /\ cpc = "returned"
    /\ start_equity = CloseOn(4)
    /\ Len(historical) = 2
    /\ Len(percentages) = 2

(***************************************************************************)
(* C25: the timestamp of a row is the wall-clock time at which the row is  *)
(* written: when a call commits its upsert, the row of its key carries the *)
(* time of that moment, so that the age a later call computes is the time  *)
(* since the write, however long the computation took.                     *)
(***************************************************************************)
C25_TimestampIsWriteTime ==
    [][\A p \in Procs :
          (pc[p] = "commit" /\ pc'[p] = "idle" /\ out'[p].how = "stored") =>
              FetchOne(db'[TableName].rows, out'[p].key).timestamp = now]_vars

(***************************************************************************)
(* C26: the list get_bank_transfers returns, and the shifted and filtered  *)
(* list the merge walks, is in the order of created_at: no transfer is     *)
(* created before the one in front of it.                                  *)
(***************************************************************************)
C26_OrderedByCreatedAt ==
    cpc \in {"shift", "anchor", "loop", "returned"} =>
        \A i \in 1..(Len(transfers) - 1) :
            transfers[i].created_at <= transfers[i + 1].created_at

(***************************************************************************)
(* C27: while the merge runs the transfer list stays as it is, the pointer *)
(* never decreases and never exceeds the length of the list, so that each  *)
(* transfer is passed at most once, and total_deposits grows by exactly    *)
(* the amounts of the completed deposits the pointer passes in that step:  *)
(* it changes in no other step.                                            *)
(***************************************************************************)
C27_PointerOnlyAdvances ==
    [][cpc = "loop" =>
          /\ transfers' = transfers
          /\ current_transfer_idx' >= current_transfer_idx
          /\ current_transfer_idx' <= Len(transfers)
          /\ total_deposits' =
                total_deposits
                   + DepositsAmong(transfers, current_transfer_idx')
                   - DepositsAmong(transfers, current_transfer_idx)
          /\ total_deposits' # total_deposits =>
                \E i \in (current_transfer_idx + 1)..current_transfer_idx' :
                    IsCompletedDeposit(transfers[i])]_vars

\* two iterations have run and both transfers, completed deposits, were
\* passed and counted once
C27_Witness ==
    /\ cpc = "returned"
    /\ Len(historical) = 3
    /\ Len(transfers) = 2
    /\ current_transfer_idx = 2
    /\ total_deposits = transfers[1].amount + transfers[2].amount

(***************************************************************************)
(* C29: the value a hit returns is the value the call that stored the row  *)
(* returned to its caller, for every result json.dumps could write.        *)
(***************************************************************************)
C29_HitReturnsStoredValue ==
    [][\A p \in Procs :
          (Finishes(p) /\ out'[p].how = "hit") =>
              out'[p].val = lastUpsert[out'[p].key].val]_vars

(***************************************************************************)
(* C28: the shift is applied once in a call and is not persisted.  The row *)
(* of get_bank_transfers always decodes to the list the function returns   *)
(* for the data of the source, with the created_at values of the source;   *)
(* the list a call works on after its shift has every created_at one day   *)
(* before the source's; and all the answers of get_running_ytd_percentage  *)
(* over the same data are equal, whether the transfers were fetched or     *)
(* read from the cache.                                                    *)
(***************************************************************************)
C28_ShiftNotPersisted ==
    LET fetched == get_bank_transfers(source.bank)
    IN /\ cached.bank # NoRow =>
             Loads(cached.bank.value) = PyOfTransfers(fetched)
       /\ cpc = "anchor" =>
             /\ Len(transfers) = Len(fetched)
             /\ \A i \in 1..Len(fetched) :
                   transfers[i] =
                       [fetched[i] EXCEPT !.created_at = @ - OneDay]
       /\ \A i, j \in 1..Len(answers) :
             ( /\ answers[i].kind = "ytd" /\ answers[i].done
               /\ answers[j].kind = "ytd" /\ answers[j].done )
             => answers[i].out = answers[j].out

\* a call that fetched the transfers and a later call that read them from
\* the cache have both answered, and a deposit was in the baseline
C28_Witness ==
    \E i, j \in 1..Len(answers) :
        /\ i < j
        /\ answers[i].kind = "ytd" /\ answers[i].done
        /\ answers[i].bank_fetches = 1
        /\ answers[j].kind = "ytd" /\ answers[j].done
        /\ answers[j].bank_fetches = 0
        /\ Len(answers[j].out) >= 2
        /\ answers[j].out[Len(answers[j].out)].percentage.den > CloseOn(10)

(***************************************************************************)
(* C30: of two requests of the same calculator output made less than the   *)
(* TTL apart, at most one calls the data source's historical-equity fetch: *)
(* the other is served from the Result Cache.  This is claimed of the      *)
(* simple percentage series and of the running YTD series alike.           *)
(***************************************************************************)
C30_EquityFetchedThroughCache ==
    \A i, j \in 1..Len(answers) :
        ( /\ i < j
          /\ answers[i].kind = answers[j].kind
          /\ answers[j].at - answers[i].at < Ttl )
        => answers[i].equity_fetches + answers[j].equity_fetches <= 1

====
